---- MODULE Spec2Model ----
(***************************************************************************)
(* Model of the Cambrian API client (src/cambrian_client.py): the          *)
(* constructor, the response normaliser parse_response, test_endpoints,    *)
(* the request dispatcher _make_request with its exception handlers and    *)
(* the endpoint methods, and the main() of the two scripts.                *)
(*                                                                         *)
(* Python strings that are stripped or concatenated are sequences of       *)
(* tokens; a dict is a sequence of <<key, value>> pairs in insertion order *)
(* (the order a Python dict keeps).                                        *)
(***************************************************************************)
EXTENDS Integers, Sequences, FiniteSets, TLC

\* ---------------------------------------------------------------- bounds
MaxCols == 3      \* longest columns list of a result-block
MaxRowLen == 2    \* longest data row
MaxRows == 2      \* most rows in a block's data

\* ------------------------------------------------------- Python helpers
None == "<None>"

\* truthiness of an Optional[str]
Truthy(s) == s # None /\ s # ""

\* a or b
PyOr(a, b) == IF Truthy(a) THEN a ELSE b

RECURSIVE rstrip(_)
\* str.rstrip('/')
rstrip(s) == IF Len(s) > 0 /\ s[Len(s)] = "/" THEN rstrip(SubSeq(s, 1, Len(s) - 1)) ELSE s

\* endpoint[1:] if endpoint.startswith('/') else endpoint: one slash only
lstripOne(s) == IF Len(s) > 0 /\ s[1] = "/" THEN Tail(s) ELSE s

RECURSIVE lstrip(_)
\* str.lstrip('/')
lstrip(s) == IF Len(s) > 0 /\ s[1] = "/" THEN lstrip(Tail(s)) ELSE s

SeqsUpTo(S, n) == UNION {[1..k -> S] : k \in 0..n}

\* ------------------------------------------------------------ dict model
RECURSIVE DictHas(_, _)
\* key in d
DictHas(d, k) == Len(d) > 0 /\ (d[1][1] = k \/ DictHas(Tail(d), k))

RECURSIVE DictReplace(_, _, _)
DictReplace(d, k, v) ==
    IF Len(d) = 0 THEN <<>>
    ELSE <<(IF d[1][1] = k THEN <<k, v>> ELSE d[1])>> \o DictReplace(Tail(d), k, v)

\* d.setdefault(k, v): an existing key keeps its first value
DictSetKeepFirst(d, k, v) == IF DictHas(d, k) THEN d ELSE Append(d, <<k, v>>)

\* d[k] = v: a new key is appended, an existing key keeps its position
DictSet(d, k, v) == IF DictHas(d, k) THEN DictReplace(d, k, v) ELSE Append(d, <<k, v>>)

\* list(d.keys())
DictKeys(d) == [i \in 1..Len(d) |-> d[i][1]]

\* d[k], for a key that is present
DictGet(d, k) == d[CHOOSE i \in 1..Len(d) : d[i][1] = k][2]

\* ------------------------------------------------- columnar responses
Names == {"a", "b"}
Values == {1, 2}

ColumnLists == SeqsUpTo([name : Names], MaxCols)
DataRows == SeqsUpTo(Values, MaxRowLen)
DataLists == SeqsUpTo(DataRows, MaxRows)

\* a result-block; hasColumns / hasData say whether the key is in the dict
FirstBlocks ==
    {[hasColumns |-> TRUE, columns |-> c, hasData |-> TRUE, data |-> d] :
        c \in ColumnLists, d \in DataLists}
    \cup {[hasColumns |-> FALSE, columns |-> <<>>, hasData |-> TRUE, data |-> d] :
        d \in DataLists}
    \cup {[hasColumns |-> TRUE, columns |-> c, hasData |-> FALSE, data |-> <<>>] :
        c \in ColumnLists}
    \cup {[hasColumns |-> FALSE, columns |-> <<>>, hasData |-> FALSE, data |-> <<>>]}

LaterBlockA ==
    [hasColumns |-> TRUE, columns |-> <<[name |-> "b"]>>, hasData |-> TRUE,
     data |-> <<<<2>>>>]
LaterBlockB ==
    [hasColumns |-> TRUE, columns |-> <<[name |-> "a"], [name |-> "b"]>>,
     hasData |-> TRUE, data |-> <<<<1, 2>>, <<2>>>>]

\* what may follow the first block
LaterBlocks == {<<>>, <<LaterBlockA>>, <<LaterBlockB, LaterBlockA>>}

\* the `response` argument of parse_response: None, [], one block, or a
\* block of at most one row followed by later blocks
Responses ==
    {[isNone |-> TRUE, blocks |-> <<>>], [isNone |-> FALSE, blocks |-> <<>>]}
    \cup {[isNone |-> FALSE, blocks |-> <<b>>] : b \in FirstBlocks}
    \cup {[isNone |-> FALSE, blocks |-> <<b>> \o t] :
            b \in {f \in FirstBlocks : Len(f.data) <= 1}, t \in LaterBlocks}

\* result.get('columns', [])
GetColumns(result) == IF result.hasColumns THEN result.columns ELSE <<>>

\* result.get('data', [[]])
GetDataDefaultRow(result) == IF result.hasData THEN result.data ELSE <<<<>>>>

\* result.get('data', [])
GetData(result) == IF result.hasData THEN result.data ELSE <<>>

RECURSIVE RowDictFromShifted(_, _, _, _)
\* the inner loop with enumerate(columns, 1): the value one place to the right
RowDictFromShifted(columns, row, i, row_dict) ==
    IF i > Len(columns) THEN row_dict
    ELSE RowDictFromShifted(columns, row, i + 1,
            IF i + 1 <= Len(row) THEN DictSet(row_dict, columns[i].name, row[i + 1])
            ELSE row_dict)

RECURSIVE RowDictFromPadded(_, _, _, _)
\* the inner loop with an else branch that stores a null (0) for a missing value
RowDictFromPadded(columns, row, i, row_dict) ==
    IF i > Len(columns) THEN row_dict
    ELSE RowDictFromPadded(columns, row, i + 1,
            DictSet(row_dict, columns[i].name, IF i <= Len(row) THEN row[i] ELSE 0))

RECURSIVE RowDictFromSurplus(_, _, _, _)
\* the inner loop over the row's values, a value past the last column being
\* stored under the last column's name
RowDictFromSurplus(columns, row, i, row_dict) ==
    IF i > Len(row) \/ Len(columns) = 0 THEN row_dict
    ELSE RowDictFromSurplus(columns, row, i + 1,
            DictSet(row_dict,
                    columns[IF i <= Len(columns) THEN i ELSE Len(columns)].name, row[i]))

RECURSIVE RowDictFrom(_, _, _, _)
\* the inner loop, from column index i on, with the dict built so far
RowDictFrom(columns, row, i, row_dict) ==
    IF i > Len(columns) THEN row_dict
    ELSE RowDictFrom(columns, row, i + 1,
            IF i <= Len(row) THEN DictSet(row_dict, columns[i].name, row[i])
            ELSE row_dict)

\* row_dict = {} ; for i, col_info in enumerate(columns): ...
RowDict(columns, row) == RowDictFrom(columns, row, 1, <<>>)

\* response[-1]
ResultBlockLast(response) == response.blocks[Len(response.blocks)]

\* the block that parse_response reads
ResultBlock(response) == response.blocks[1]

\* parse_response with parsed.insert(0, row_dict) for parsed.append(row_dict)
parse_response_insert_front(response) ==
    IF response.isNone \/ Len(response.blocks) = 0 THEN <<>>
    ELSE LET result == response.blocks[1]
             columns == IF result.hasColumns THEN result.columns ELSE <<>>
             data_rows == IF result.hasData THEN result.data ELSE <<>>
             n == Len(data_rows)
         IN [j \in 1..n |-> RowDictFrom(columns, data_rows[n + 1 - j], 1, <<>>)]

\* parse_response(response)
parse_response(response) ==
    IF response.isNone \/ Len(response.blocks) = 0 THEN <<>>
    ELSE LET result == ResultBlock(response)
             columns == GetColumns(result)
             data_rows == GetData(result)
         IN [j \in 1..Len(data_rows) |-> RowDict(columns, data_rows[j])]

\* ------------------------------------------------ configuration inputs
\* values of an Optional[str] API key (argument or CAMBRIAN_API_KEY)
KeyVals == {None, "", "k1", "k2"}

\* values of a base URL (argument or CAMBRIAN_BASE_URL); "/" is the slash
\* an Optional[str] of tokens: None, or the string s
NoUrl == [isNone |-> TRUE, s |-> <<>>]
Url(s) == [isNone |-> FALSE, s |-> s]
UrlVals == {NoUrl, Url(<<>>), Url(<<"h", "/">>), Url(<<"g", "/", "/">>)}

\* 'https://opabinia.cambrian.network/api/v1'
DefaultBaseUrl == <<"https://opabinia.cambrian.network", "/", "api", "/", "v1">>

\* truthiness of an Optional[str] of tokens
UrlTruthy(u) == ~u.isNone /\ Len(u.s) > 0

\* a or b, on Optional[str] of tokens
UrlOr(a, b) == IF UrlTruthy(a) THEN a ELSE b

\* os.getenv(name, default) on Optional[str] of tokens
UrlGetEnv(v, default) == IF v.isNone THEN Url(default) ELSE v

\* ---------------------------------------------------- the HTTP exchange
\* exceptions a failed session.get / session.post raises
TransportErrors == {"ConnectionError", "Timeout"}

\* status codes of a completed exchange
Statuses == {200, 300, 404, 500}

\* response bodies: two JSON texts and an HTML page
Bodies == {"[1]", "{}", "<html>"}

\* whether json.loads accepts the text
ValidJson(text) == text \in {"[1]", "{}"}

\* the value json.loads returns for a valid text
JsonValue(text) == IF text = "[1]" THEN "list:1" ELSE "dict:empty"

\* the class of the decode error of response.json(): requests >= 2.27 raises
\* requests.exceptions.JSONDecodeError, older versions json.JSONDecodeError
JsonErrorClasses == {"requests.JSONDecodeError", "json.JSONDecodeError"}

\* isinstance(exception of class cls, requests.exceptions.HTTPError)
IsHTTPError(cls) == cls = "HTTPError"

\* isinstance(..., requests.exceptions.RequestException)
IsRequestException(cls) ==
    cls \in {"HTTPError", "ConnectionError", "Timeout", "requests.JSONDecodeError"}

\* isinstance(..., json.JSONDecodeError)
IsJSONDecodeError(cls) == cls \in {"requests.JSONDecodeError", "json.JSONDecodeError"}

\* a status check that raises for server errors only
RaisesForStatusServerOnly(status) == 500 <= status /\ status < 600

\* response.raise_for_status() raises HTTPError for 4xx and 5xx
RaisesForStatus(status) == 400 <= status /\ status < 600

NoResponse == [status |-> 0, text |-> ""]
NoException == [cls |-> None, id |-> 0]

\* arguments of _make_request
Endpoints == {<<"p">>, <<"/", "p">>, <<"/", "/", "p", "/", "q">>}
Methods == {"GET", "get", "POST", "Post", "PUT"}
DataVals == {None, "data"}

\* a params argument: None, or a dict with the given keys
NoParams == [isNone |-> TRUE, keys |-> {}]
Params(keys) == [isNone |-> FALSE, keys |-> keys]
ParamVals == {NoParams, Params({"limit"})}

\* the responses the main specification normalises: None, [], and the example
\* [{"columns":[{"name":"a"},{"name":"b"}],"data":[[1,2],[1]]}]
SampleResponses ==
    {[isNone |-> TRUE, blocks |-> <<>>], [isNone |-> FALSE, blocks |-> <<>>],
     [isNone |-> FALSE,
      blocks |-> <<[hasColumns |-> TRUE, columns |-> <<[name |-> "a"], [name |-> "b"]>>,
                    hasData |-> TRUE, data |-> <<<<1, 2>>, <<1>>>>]>>]}

\* the method compared as it was passed, without upper()
UpperAsPassed(m) == m

\* str.upper() on the method names
Upper(m) ==
    CASE m \in {"GET", "get"} -> "GET"
      [] m \in {"POST", "Post"} -> "POST"
      [] OTHER -> m

VARIABLES
    env,        \* os.environ: CAMBRIAN_API_KEY and CAMBRIAN_BASE_URL
    ctor,       \* arguments of the constructor call, while it is the last call
    api_key,    \* self.api_key
    base_url,   \* self.base_url
    session,    \* self.session: None or its headers
    pc,         \* where the program is
    call,       \* arguments of the running _make_request
    sent,       \* HTTP requests the running call has issued, in order
    response,   \* the local `response` of _make_request
    exc,        \* the exception raised inside the try block
    printed,    \* lines the running call has printed
    outcome,    \* how the last call ended: return value or raised exception
    arg,        \* the argument of the last parse_response
    parsed,     \* what the last parse_response returned
    te,         \* the running test_endpoints: path index, requests, printed lines
    demo        \* the running main() of a script

vars == <<env, ctor, api_key, base_url, session, pc, call, sent, response, exc, printed,
          outcome, arg, parsed, te, demo>>

NoSession == [open |-> FALSE, headers |-> <<>>]
NoCall == [via |-> None, endpoint |-> <<>>, method |-> None, params |-> NoParams,
           data |-> None]
NoCtor == [key |-> None, url |-> NoUrl]
NoOutcome == [kind |-> "none", value |-> None, exc |-> NoException]
NoArg == [isNone |-> TRUE, blocks |-> <<>>]
NoTe == [i |-> 0, sent |-> <<>>, printed |-> <<>>]
NoLine == [by |-> None, cls |-> None]
NoDemo == [script |-> None, at |-> 0, iter |-> 0, exc |-> None, state |-> "none",
           errors |-> 0, last |-> NoLine]

\* the process before CambrianAPI() is called
InitClient ==
    /\ env \in [key : KeyVals, base : UrlVals]
    /\ ctor = NoCtor
    /\ api_key = None
    /\ base_url = <<>>
    /\ session = NoSession
    /\ pc = "start"
    /\ call = NoCall
    /\ sent = <<>>
    /\ response = NoResponse
    /\ exc = NoException
    /\ printed = <<>>
    /\ outcome = NoOutcome
    /\ arg = NoArg
    /\ parsed = <<>>
    /\ te = NoTe

\* a process that uses the client and runs no script
Init == InitClient /\ demo = NoDemo

\* os.getenv('CAMBRIAN_API_KEY') or api_key
ResolveKeyEnvFirst(key_arg, e) == PyOr(e.key, key_arg)

\* self.api_key = api_key or os.getenv('CAMBRIAN_API_KEY')
ResolveKey(key_arg, e) == PyOr(key_arg, e.key)

\* self.base_url = (base_url or os.getenv('CAMBRIAN_BASE_URL', default)).rstrip('/')
ResolveBaseUrl(url_arg, e) ==
    rstrip(UrlOr(url_arg, UrlGetEnv(e.base, DefaultBaseUrl)).s)

\* the headers of the new session
SessionHeaders(key) ==
    <<<<"X-API-KEY", key>>, <<"Content-Type", "application/json">>,
      <<"User-Agent", "CambrianAPI-Python-Client">>>>

\* CambrianAPI(api_key, base_url)
Construct(key_arg, url_arg) ==
    /\ pc = "start"
    /\ ctor' = [key |-> key_arg, url |-> url_arg]
    /\ api_key' = ResolveKey(key_arg, env)
    /\ base_url' = ResolveBaseUrl(url_arg, env)
    /\ IF ~Truthy(api_key')
       THEN /\ pc' = "ctor_raised"
            /\ outcome' = [kind |-> "raised", value |-> None,
                           exc |-> [cls |-> "ValueError", id |-> 0]]
            /\ session' = session
       ELSE /\ pc' = "constructed"
            /\ outcome' = NoOutcome
            /\ session' = [open |-> TRUE, headers |-> SessionHeaders(api_key')]
    /\ UNCHANGED <<te, env, call, sent, response, exc, printed, arg, parsed>>

\* cambrian.parse_response(r)
ParseResponse(r) ==
    /\ pc = "idle"
    /\ arg' = r
    /\ parsed' = parse_response(r)
    /\ pc' = "parsed"
    /\ outcome' = NoOutcome
    /\ UNCHANGED <<te, demo, env, ctor, api_key, base_url, session, call, sent, response,
                   exc, printed>>

\* url = f"{self.base_url}/{endpoint.lstrip('/')}"
RequestUrl(base, endpoint) == base \o <<"/">> \o lstrip(endpoint)

\* the request session.get(url, params=params) issues
GetRequest(c) ==
    [verb |-> "GET", url |-> RequestUrl(base_url, c.endpoint), params |-> c.params,
     json |-> None, headers |-> session.headers]

\* the request session.post(url, json=data, params=params) issues
PostRequest(c) ==
    [verb |-> "POST", url |-> RequestUrl(base_url, c.endpoint), params |-> c.params,
     json |-> c.data, headers |-> session.headers]

\* test_paths of test_endpoints
TestPaths ==
    <<<<"solana", "/", "latest-block">>, <<"solana", "/", "tokens">>,
      <<"solana", "/", "trending-tokens">>>>

\* status codes test_endpoints may see: it tells 200, 401 and 429 apart
TestStatuses == Statuses \cup {401, 429}

\* url = f"{self.base_url}/{path}" ; self.session.get(url)
TestRequest(i) ==
    [verb |-> "GET", url |-> base_url \o <<"/">> \o TestPaths[i], params |-> NoParams,
     json |-> None, headers |-> session.headers]

\* the line test_endpoints prints after "Testing ...", by status
StatusLine(status) ==
    CASE status = 200 -> "Working endpoint found"
      [] status = 401 -> "401 Unauthorized - API key issue"
      [] status = 429 -> "429 Rate Limited"
      [] OTHER -> "Response"

TeLine(line, status) == [line |-> line, status |-> status]

\* entry of test_endpoints()
TestEndpoints ==
    /\ pc = "idle"
    /\ te' = [i |-> 1, sent |-> <<>>, printed |-> <<>>]
    /\ outcome' = NoOutcome
    /\ pc' = "te_loop"
    /\ UNCHANGED <<demo, env, ctor, api_key, base_url, session, call, sent, response, exc,
                   printed, arg, parsed>>

\* one turn of the loop over test_paths: the request, the prints, and either
\* the return of the decoded body or the next path; every exception is
\* caught and printed
TestPath ==
    /\ pc = "te_loop"
    /\ te.i <= Len(TestPaths)
    /\ LET issued == Append(te.sent, TestRequest(te.i))
           next(lines) == [i |-> te.i + 1, sent |-> issued, printed |-> te.printed \o lines]
       IN \/ /\ \E cls \in TransportErrors : te' = next(<<TeLine("Error", 0)>>)
             /\ UNCHANGED <<pc, outcome>>
          \/ \E status \in TestStatuses, text \in Bodies :
                IF status = 200 /\ ValidJson(text)
                THEN /\ te' = [i |-> te.i, sent |-> issued,
                                printed |-> te.printed \o
                                    <<TeLine("Testing", status), TeLine(StatusLine(status), 0)>>]
                     /\ outcome' = [kind |-> "returned", value |-> JsonValue(text),
                                    exc |-> NoException]
                     /\ pc' = "te_returned"
                ELSE /\ te' = next(<<TeLine("Testing", status), TeLine(StatusLine(status), 0)>>
                                    \o (IF status = 200 THEN <<TeLine("Error", 0)>> ELSE <<>>))
                     /\ UNCHANGED <<pc, outcome>>
    /\ UNCHANGED <<demo, env, ctor, api_key, base_url, session, call, sent, response, exc,
                   printed, arg, parsed>>

\* return None after the last path
TestNone ==
    /\ pc = "te_loop"
    /\ te.i > Len(TestPaths)
    /\ outcome' = [kind |-> "returned", value |-> None, exc |-> NoException]
    /\ pc' = "te_returned"
    /\ UNCHANGED <<te, demo, env, ctor, api_key, base_url, session, call, sent, response,
                   exc, printed, arg, parsed>>

\* _make_request with self.base_url = url for url = ...
MakeRequestRebasing(endpoint, method, params, data) ==
    /\ pc = "idle"
    /\ call' = [via |-> "_make_request", endpoint |-> endpoint, method |-> method,
                params |-> params, data |-> data]
    /\ base_url' = IF Len(base_url) < 8 THEN base_url \o <<"/">> \o lstrip(endpoint)
                   ELSE base_url
    /\ sent' = <<>>
    /\ response' = NoResponse
    /\ exc' = NoException
    /\ printed' = <<>>
    /\ outcome' = NoOutcome
    /\ pc' = "try"
    /\ UNCHANGED <<te, demo, env, ctor, api_key, session, arg, parsed>>

\* entry of _make_request(endpoint, method, params, data)
MakeRequest(endpoint, method, params, data) ==
    /\ pc = "idle"
    /\ call' = [via |-> "_make_request", endpoint |-> endpoint, method |-> method, params |-> params,
                data |-> data]
    /\ sent' = <<>>
    /\ response' = NoResponse
    /\ exc' = NoException
    /\ printed' = <<>>
    /\ outcome' = NoOutcome
    /\ pc' = "try"
    /\ UNCHANGED <<te, demo, env, ctor, api_key, base_url, session, arg, parsed>>

\* the public endpoint methods
EndpointMethods ==
    {"get_latest_block", "get_trending_tokens", "get_tokens", "get_token_details",
     "get_current_price", "get_multiple_prices", "get_price_history", "get_ohlcv",
     "get_holder_balances", "get_wallet_history", "get_trade_statistics",
     "get_token_transactions", "get_traders_leaderboard", "search_token_pools",
     "get_pool_details", "get_pool_fee_metrics", "get_pool_transactions"}

\* the endpoint path each method passes, after 'solana/'
EndpointTail(m) ==
    CASE m = "get_latest_block" -> <<"latest-block">>
      [] m = "get_trending_tokens" -> <<"trending-tokens">>
      [] m = "get_tokens" -> <<"tokens">>
      [] m = "get_token_details" -> <<"token-details">>
      [] m = "get_current_price" -> <<"price-current">>
      [] m = "get_multiple_prices" -> <<"price-multi">>
      [] m = "get_price_history" -> <<"price-hour">>
      [] m = "get_ohlcv" -> <<"ohlcv", "/", "token">>
      [] m = "get_holder_balances" -> <<"holder-token-balances">>
      [] m = "get_wallet_history" -> <<"wallet-balance-history">>
      [] m = "get_trade_statistics" -> <<"trade-statistics">>
      [] m = "get_token_transactions" -> <<"token-transactions">>
      [] m = "get_traders_leaderboard" -> <<"traders", "/", "leaderboard">>
      [] m = "search_token_pools" -> <<"token-pool-search">>
      [] m = "get_pool_details" -> <<"orca", "/", "pool">>
      [] m = "get_pool_fee_metrics" -> <<"orca", "/", "pools", "/", "fee-metrics">>
      [] m = "get_pool_transactions" -> <<"pool-transactions">>

EndpointPath(m) == <<"solana", "/">> \o EndpointTail(m)

\* the params dict each method builds; after_time says whether
\* get_wallet_history was given a non-empty after_time
EndpointParams(m, after_time) ==
    CASE m = "get_latest_block" -> NoParams
      [] m = "get_trending_tokens" -> Params({"order_by", "limit"})
      [] m = "get_tokens" -> Params({"limit", "offset"})
      [] m \in {"get_token_details", "get_current_price"} -> Params({"token_address"})
      [] m = "get_multiple_prices" -> Params({"token_addresses"})
      [] m = "get_price_history" -> Params({"token_address", "hours_back"})
      [] m = "get_ohlcv" -> Params({"token_address", "timeframe", "limit"})
      [] m = "get_holder_balances" -> Params({"holder", "limit"})
      [] m = "get_wallet_history" ->
            IF after_time THEN Params({"wallet_address", "after_time"})
            ELSE Params({"wallet_address"})
      [] m = "get_trade_statistics" -> Params({"token_addresses", "timeframe"})
      [] m \in {"get_token_transactions", "get_traders_leaderboard",
                "search_token_pools"} -> Params({"token_address", "limit"})
      [] m = "get_pool_details" -> Params({"pool_address"})
      [] m = "get_pool_fee_metrics" -> Params({"pool_address", "timeframe_days"})
      [] m = "get_pool_transactions" -> Params({"pool_address", "limit"})

\* get_multiple_prices posting its addresses as a JSON body
CallEndpointPost(m, after_time) ==
    /\ pc = "idle"
    /\ call' = [via |-> m, endpoint |-> EndpointPath(m),
                method |-> IF m = "get_multiple_prices" THEN "POST" ELSE "GET",
                params |-> IF m = "get_multiple_prices" THEN NoParams
                           ELSE EndpointParams(m, after_time),
                data |-> IF m = "get_multiple_prices" THEN "data" ELSE None]
    /\ sent' = <<>>
    /\ response' = NoResponse
    /\ exc' = NoException
    /\ printed' = <<>>
    /\ outcome' = NoOutcome
    /\ pc' = "try"
    /\ UNCHANGED <<te, demo, env, ctor, api_key, base_url, session, arg, parsed>>

\* a public endpoint method: return self._make_request(path, params=params),
\* with the defaults method='GET' and data=None
CallEndpoint(m, after_time) ==
    /\ pc = "idle"
    /\ call' = [via |-> m, endpoint |-> EndpointPath(m), method |-> "GET",
                params |-> EndpointParams(m, after_time), data |-> None]
    /\ sent' = <<>>
    /\ response' = NoResponse
    /\ exc' = NoException
    /\ printed' = <<>>
    /\ outcome' = NoOutcome
    /\ pc' = "try"
    /\ UNCHANGED <<te, demo, env, ctor, api_key, base_url, session, arg, parsed>>

\* the exchange of one issued request: a transport error is raised, or a
\* response with some status and body arrives
Exchange(request) ==
    /\ sent' = Append(sent, request)
    /\ \/ \E cls \in TransportErrors :
            /\ exc' = [cls |-> cls, id |-> 1]
            /\ response' = response
            /\ pc' = "except"
       \/ \E status \in Statuses, text \in Bodies :
            /\ response' = [status |-> status, text |-> text]
            /\ exc' = exc
            /\ pc' = "status"

\* if method.upper() == 'GET': ... elif 'POST': ... else: raise ValueError
Dispatch ==
    /\ pc = "try"
    /\ IF Upper(call.method) = "GET" THEN Exchange(GetRequest(call))
       ELSE IF Upper(call.method) = "POST" THEN Exchange(PostRequest(call))
       ELSE /\ exc' = [cls |-> "ValueError", id |-> 1]
            /\ pc' = "except"
            /\ UNCHANGED <<sent, response>>
    /\ UNCHANGED <<te, demo, env, ctor, api_key, base_url, session, call, printed, outcome,
                   arg, parsed>>

\* response.raise_for_status()
RaiseForStatus ==
    /\ pc = "status"
    /\ IF RaisesForStatus(response.status)
       THEN /\ exc' = [cls |-> "HTTPError", id |-> 1]
            /\ pc' = "except"
       ELSE /\ exc' = exc
            /\ pc' = "json"
    /\ UNCHANGED <<te, demo, env, ctor, api_key, base_url, session, call, sent, response, printed,
                   outcome, arg, parsed>>

\* return response.json()
ReturnJson ==
    /\ pc = "json"
    /\ IF ValidJson(response.text)
       THEN /\ outcome' = [kind |-> "returned", value |-> JsonValue(response.text),
                           exc |-> NoException]
            /\ exc' = exc
            /\ pc' = "returned"
       ELSE /\ \E cls \in JsonErrorClasses : exc' = [cls |-> cls, id |-> 1]
            /\ outcome' = outcome
            /\ pc' = "except"
    /\ UNCHANGED <<te, demo, env, ctor, api_key, base_url, session, call, sent, response, printed,
                   arg, parsed>>

\* the except clauses without the one for json.JSONDecodeError
HandlerLineNoJsonClause(cls) ==
    IF IsHTTPError(cls) THEN "HTTP Error"
    ELSE IF IsRequestException(cls) THEN "Request Error"
    ELSE None

\* the line the matching except clause prints, None when no clause matches
HandlerLine(cls) ==
    IF IsHTTPError(cls) THEN "HTTP Error"
    ELSE IF IsRequestException(cls) THEN "Request Error"
    ELSE IF IsJSONDecodeError(cls) THEN "Invalid JSON response"
    ELSE None

\* what leaves _make_request once the except clauses have run: every clause
\* ends in a bare raise, an unmatched exception propagates as it is
HandlerRaises(e) == e

\* except clauses that send the request once more after a transport error
ExceptRetryOnce ==
    /\ pc = "except"
    /\ printed' = IF HandlerLine(exc.cls) = None THEN printed
                  ELSE Append(printed, HandlerLine(exc.cls))
    /\ IF exc.cls \in TransportErrors /\ Len(sent) < 2
       THEN pc' = "try" /\ exc' = NoException
       ELSE pc' = "reraise" /\ exc' = exc
    /\ UNCHANGED <<te, demo, env, ctor, api_key, base_url, session, call, sent, response,
                   outcome, arg, parsed>>

\* the except clauses, up to the print
Except ==
    /\ pc = "except"
    /\ printed' = IF HandlerLine(exc.cls) = None THEN printed
                  ELSE Append(printed, HandlerLine(exc.cls))
    /\ pc' = "reraise"
    /\ UNCHANGED <<te, demo, env, ctor, api_key, base_url, session, call, sent, response, exc,
                   outcome, arg, parsed>>

\* the raise that ends the clause: the exception leaves _make_request
Reraise ==
    /\ pc = "reraise"
    /\ outcome' = [kind |-> "raised", value |-> None, exc |-> HandlerRaises(exc)]
    /\ pc' = "raised"
    /\ UNCHANGED <<te, demo, env, ctor, api_key, base_url, session, call, sent, response, exc,
                   printed, arg, parsed>>

\* the caller goes on after a call has returned or raised
Resume ==
    /\ pc \in {"constructed", "returned", "raised", "parsed", "te_returned"}
    /\ pc' = "idle"
    /\ ctor' = NoCtor
    /\ call' = NoCall
    /\ sent' = <<>>
    /\ response' = NoResponse
    /\ exc' = NoException
    /\ printed' = <<>>
    /\ outcome' = NoOutcome
    /\ arg' = NoArg
    /\ parsed' = <<>>
    /\ te' = NoTe
    /\ UNCHANGED <<demo, env, api_key, base_url, session>>

Next ==
    \/ UNCHANGED demo /\ \E k \in KeyVals, u \in UrlVals : Construct(k, u)
    \/ pc = "idle" /\ \E r \in SampleResponses : ParseResponse(r)
    \/ pc = "idle" /\ \E e \in Endpoints, m \in Methods, p \in ParamVals, d \in DataVals :
            MakeRequest(e, m, p, d)
    \/ pc = "idle" /\ \E m \in EndpointMethods, t \in BOOLEAN : CallEndpoint(m, t)
    \/ TestEndpoints
    \/ TestPath
    \/ TestNone
    \/ Dispatch
    \/ RaiseForStatus
    \/ ReturnJson
    \/ Except
    \/ Reraise
    \/ Resume

Spec == Init /\ [][Next]_vars

\* ------------------------------------- parse_response on its own inputs
\* a process whose environment holds the key and no base URL
ParseInit == Init /\ env = [key |-> "k1", base |-> NoUrl]

ParseNext ==
    \/ UNCHANGED demo /\ Construct(None, NoUrl)
    \/ pc = "idle" /\ \E r \in Responses : ParseResponse(r)
    \/ Resume

ParseSpec == ParseInit /\ [][ParseNext]_vars

\* ------------------------------------------------- the scripts' main()
Scripts == {"cambrian_client.main", "demo_workflows.main"}

\* trending_tokens[:5]: the most turns of the trade-statistics loop
TopTokens == 5

\* a stretch of main(): a client call ("api"), handling of the data it
\* returned ("data"), or calls and prints that raise nothing ("quiet");
\* inner says whether it lies in the try block nested in the main one
Stretch(first, last, kind, inner) ==
    [first |-> first, last |-> last, kind |-> kind, inner |-> inner]

\* the try block of demo_workflows.main, lines 30..367
DemoWorkflowsSteps ==
    << Stretch(37, 37, "api", FALSE),     \* get_trending_tokens
       Stretch(38, 49, "data", FALSE),
       Stretch(54, 54, "api", FALSE),     \* get_current_price
       Stretch(55, 56, "data", FALSE),    \* parse_response(price_raw)[0]
       Stretch(59, 59, "api", FALSE),     \* get_token_details
       Stretch(60, 67, "data", FALSE),
       Stretch(75, 75, "api", FALSE),     \* get_latest_block
       Stretch(76, 78, "data", FALSE),    \* parse_response(block_raw)[0]
       Stretch(81, 192, "data", FALSE),
       Stretch(193, 197, "data", FALSE),  \* loop head: token['tokenAddress']
       Stretch(201, 201, "api", TRUE),    \* get_trade_statistics
       Stretch(202, 249, "data", TRUE),
       Stretch(255, 338, "data", FALSE),
       Stretch(343, 367, "quiet", FALSE) >>

\* the try block of cambrian_client.main, lines 258..301
ClientMainSteps ==
    << Stretch(261, 263, "quiet", FALSE), \* test_endpoints catches its own errors
       Stretch(267, 268, "api", FALSE),   \* get_latest_block
       Stretch(272, 273, "api", FALSE),   \* get_trending_tokens
       Stretch(276, 287, "data", FALSE),  \* trending[0].get('data') and the display
       Stretch(293, 294, "api", TRUE),    \* get_current_price
       Stretch(299, 301, "quiet", FALSE) >>

StepsOf(script) ==
    IF script = "demo_workflows.main" THEN DemoWorkflowsSteps ELSE ClientMainSteps

\* exceptions of the data handling: a missing key, [0] of an empty list, a
\* value of the wrong type
DataErrors == {"KeyError", "IndexError", "TypeError"}

\* what a stretch may raise: a client call whatever _make_request lets out
RaisedBy(kind) ==
    CASE kind = "api" -> TransportErrors \cup {"HTTPError"} \cup JsonErrorClasses
      [] kind = "data" -> DataErrors
      [] OTHER -> {}

\* a handler for requests' errors only: except requests.RequestException
CaughtByRequestException(cls) == IsRequestException(cls)

\* except Exception as e: every class above derives from Exception
CaughtByExcept(cls) ==
    cls \in TransportErrors \cup {"HTTPError", "ValueError"} \cup JsonErrorClasses
            \cup DataErrors

\* where main() goes on after the stretch at `at` is over, normally or by
\* the nested handler: [at, iter] pairs
Continuations(script, at, iter) ==
    IF script = "demo_workflows.main"
    THEN CASE at = 9 -> {[at |-> 10, iter |-> 1], [at |-> 13, iter |-> 0]}
           [] at \in {11, 12} ->
                {[at |-> 13, iter |-> iter]} \cup
                (IF iter < TopTokens THEN {[at |-> 10, iter |-> iter + 1]} ELSE {})
           [] OTHER -> {[at |-> at + 1, iter |-> iter]}
    ELSE CASE at = 4 -> {[at |-> 5, iter |-> iter], [at |-> 6, iter |-> iter]}
           [] OTHER -> {[at |-> at + 1, iter |-> iter]}

\* after the nested handler: `continue` in demo_workflows.main, the line
\* after the nested try in cambrian_client.main
AfterInner(script, at, iter) ==
    IF script = "demo_workflows.main" THEN Continuations(script, 12, iter)
    ELSE {[at |-> 6, iter |-> iter]}

\* cambrian = CambrianAPI(), before the try block
DemoConstruct ==
    /\ demo.state = "start"
    /\ Construct(None, NoUrl)
    /\ demo' = IF pc' = "ctor_raised"
               THEN [demo EXCEPT !.state = "crashed", !.exc = "ValueError"]
               ELSE [demo EXCEPT !.state = "running", !.at = 1]

\* one stretch of the try block: it completes or raises
DemoStep ==
    /\ demo.state = "running"
    /\ demo.at <= Len(StepsOf(demo.script))
    /\ \/ \E c \in Continuations(demo.script, demo.at, demo.iter) :
            demo' = [demo EXCEPT !.at = c.at, !.iter = c.iter]
       \/ \E cls \in RaisedBy(StepsOf(demo.script)[demo.at].kind) :
            demo' = [demo EXCEPT !.state = "raised", !.exc = cls]
    /\ UNCHANGED <<env, ctor, api_key, base_url, session, pc, call, sent, response, exc,
                   printed, outcome, arg, parsed, te>>

\* the except clause that takes the exception: the nested one prints and
\* goes on, the main one prints and ends main(); an exception no clause
\* takes leaves main()
DemoExcept ==
    /\ demo.state = "raised"
    /\ IF ~CaughtByExcept(demo.exc)
       THEN demo' = [demo EXCEPT !.state = "crashed"]
       ELSE IF StepsOf(demo.script)[demo.at].inner
       THEN \E c \in AfterInner(demo.script, demo.at, demo.iter) :
                demo' = [demo EXCEPT !.state = "running", !.at = c.at, !.iter = c.iter,
                                     !.exc = None, !.errors = @ + 1,
                                     !.last = [by |-> "inner", cls |-> demo.exc]]
       ELSE demo' = [demo EXCEPT !.state = "finished", !.errors = @ + 1,
                                 !.last = [by |-> "outer", cls |-> demo.exc]]
    /\ UNCHANGED <<env, ctor, api_key, base_url, session, pc, call, sent, response, exc,
                   printed, outcome, arg, parsed, te>>

\* the end of the try block: main() returns
DemoFinish ==
    /\ demo.state = "running"
    /\ demo.at > Len(StepsOf(demo.script))
    /\ demo' = [demo EXCEPT !.state = "finished"]
    /\ UNCHANGED <<env, ctor, api_key, base_url, session, pc, call, sent, response, exc,
                   printed, outcome, arg, parsed, te>>

\* a process that runs one of the scripts
DemoInit ==
    /\ InitClient
    /\ demo \in {[NoDemo EXCEPT !.script = s, !.state = "start"] : s \in Scripts}

DemoNext ==
    \/ DemoConstruct
    \/ DemoStep
    \/ DemoExcept
    \/ DemoFinish

DemoSpec == DemoInit /\ [][DemoNext]_vars

\* ======================================================== properties
\* ------------------------------------------------ reading a parse call
\* parse_response has returned
Parsed == pc = "parsed"

\* the argument has a first result-block
HasBlock == ~arg.isNone /\ Len(arg.blocks) > 0

\* the first block's column names, in order (none when the key is missing)
ColNames ==
    LET b == arg.blocks[1]
    IN IF b.hasColumns THEN [i \in 1..Len(b.columns) |-> b.columns[i].name] ELSE <<>>

\* the first block's rows (none when the key is missing)
Rows == LET b == arg.blocks[1] IN IF b.hasData THEN b.data ELSE <<>>

Distinct(seq) == \A i, k \in 1..Len(seq) : seq[i] = seq[k] => i = k

Min(a, b) == IF a <= b THEN a ELSE b
SetMax(S) == CHOOSE x \in S : \A y \in S : y <= x

\* keys of a record in order, membership, and the value under a key
KeysOf(rec) == [e \in 1..Len(rec) |-> rec[e][1]]
KeyIn(rec, k) == \E e \in 1..Len(rec) : rec[e][1] = k
ValueOf(rec, k) == rec[CHOOSE e \in 1..Len(rec) : rec[e][1] = k][2]

\* the record of row j has exactly the first k column names as keys, in
\* order, each with the value at its position
FirstKeysPositional(j, k) ==
    /\ j <= Len(parsed)
    /\ KeysOf(parsed[j]) = SubSeq(ColNames, 1, k)
    /\ \A i \in 1..k : ValueOf(parsed[j], ColNames[i]) = Rows[j][i]

\* C1 as stated: a row of length N yields a record with exactly the N column
\* names as keys, in order, and record[columns[i].name] = row[i] for every i.
C1_FullRowAllKeys ==
    Parsed /\ HasBlock =>
        \A j \in 1..Len(Rows) :
            Len(Rows[j]) = Len(ColNames) => FirstKeysPositional(j, Len(ColNames))

\* C1 amended: when the N column names are pairwise distinct, a row of length
\* N yields a record with exactly the N column names as keys, in order, and
\* record[columns[i].name] = row[i] for every position i.
C1_FullRowDistinctNames ==
    Parsed /\ HasBlock /\ Distinct(ColNames) =>
        \A j \in 1..Len(Rows) :
            Len(Rows[j]) = Len(ColNames) => FirstKeysPositional(j, Len(ColNames))

\* a full row of two different values under two distinct names
C1_Witness ==
    /\ Parsed /\ HasBlock /\ Distinct(ColNames) /\ Len(ColNames) = 2
    /\ \E j \in 1..Len(Rows) :
        /\ Len(Rows[j]) = 2 /\ Rows[j][1] # Rows[j][2]
        /\ Len(parsed[j]) = 2

\* C2 as stated: a row of length k < N yields a record with exactly the first
\* k column keys, positionally valued, and the other N-k columns are absent.
C2_ShortRowFirstKeys ==
    Parsed /\ HasBlock =>
        \A j \in 1..Len(Rows) :
            Len(Rows[j]) < Len(ColNames) =>
                /\ FirstKeysPositional(j, Len(Rows[j]))
                /\ \A i \in (Len(Rows[j]) + 1)..Len(ColNames) :
                        ~KeyIn(parsed[j], ColNames[i])

\* C2 amended: when the column names are pairwise distinct, a row of length
\* k < N yields a record with exactly the first k column keys, positionally
\* valued; the other N-k column names are absent, not present with a null.
C2_ShortRowDistinctNames ==
    Parsed /\ HasBlock /\ Distinct(ColNames) =>
        \A j \in 1..Len(Rows) :
            Len(Rows[j]) < Len(ColNames) =>
                /\ FirstKeysPositional(j, Len(Rows[j]))
                /\ \A i \in (Len(Rows[j]) + 1)..Len(ColNames) :
                        ~KeyIn(parsed[j], ColNames[i])

\* the shape of the example: a full row, then a row with one value only
C2_Witness ==
    /\ Parsed /\ HasBlock /\ Distinct(ColNames) /\ Len(ColNames) = 2
    /\ Len(Rows) = 2 /\ Len(Rows[1]) = 2 /\ Len(Rows[2]) = 1
    /\ Len(parsed) = 2 /\ Len(parsed[1]) = 2
    /\ parsed[2] = <<<<ColNames[1], Rows[2][1]>>>>

\* C3: a missing response, an empty array, and a first block whose data is
\* empty or absent all give no records, whatever the columns are.
C3_EmptyInputs ==
    Parsed /\ (arg.isNone \/ Len(arg.blocks) = 0 \/ Len(Rows) = 0) => parsed = <<>>

\* a first block with columns but no rows
C3_Witness ==
    /\ Parsed /\ HasBlock /\ Len(ColNames) > 0
    /\ arg.blocks[1].hasData /\ arg.blocks[1].data = <<>>
    /\ parsed = <<>>

\* the positions of the name of column i that row j reaches
Reached(j, i) ==
    {p \in 1..Min(Len(ColNames), Len(Rows[j])) : ColNames[p] = ColNames[i]}

\* the last column that bears the name of column i
LastBearing(i) == SetMax({p \in 1..Len(ColNames) : ColNames[p] = ColNames[i]})

\* C4 as stated: a name shared by two columns is mapped, in the record of
\* every row, to the value at the later column's position.
C4_LaterColumnWins ==
    Parsed /\ HasBlock =>
        \A j \in 1..Len(Rows) : \A i \in 1..Len(ColNames) :
            LastBearing(i) # i =>
                /\ j <= Len(parsed)
                /\ KeyIn(parsed[j], ColNames[i])
                /\ LastBearing(i) <= Len(Rows[j])
                /\ ValueOf(parsed[j], ColNames[i]) = Rows[j][LastBearing(i)]

\* C4 amended: a name shared by two columns is mapped, in the record of each
\* row, to the value at the last position bearing the name that the row
\* reaches; it is absent when the row reaches no such position.
C4_LaterReachedColumnWins ==
    Parsed /\ HasBlock =>
        \A j \in 1..Len(Rows) : \A i \in 1..Len(ColNames) :
            LastBearing(i) # i =>
                /\ j <= Len(parsed)
                /\ IF Reached(j, i) = {} THEN ~KeyIn(parsed[j], ColNames[i])
                   ELSE /\ KeyIn(parsed[j], ColNames[i])
                        /\ ValueOf(parsed[j], ColNames[i]) = Rows[j][SetMax(Reached(j, i))]

\* a row with different values under two columns of one name
C4_Witness ==
    /\ Parsed /\ HasBlock
    /\ \E j \in 1..Len(Rows) : \E i1, i2 \in 1..Min(Len(ColNames), Len(Rows[j])) :
        /\ i1 < i2 /\ ColNames[i1] = ColNames[i2] /\ LastBearing(i1) = i2
        /\ Rows[j][i1] # Rows[j][i2]
        /\ ValueOf(parsed[j], ColNames[i1]) = Rows[j][i2]

\* every entry of record j is a value of row j under the name of its column
FromRow(rec, j) ==
    \A e \in 1..Len(rec) :
        \E p \in 1..Min(Len(ColNames), Len(Rows[j])) :
            ColNames[p] = rec[e][1] /\ Rows[j][p] = rec[e][2]

\* C5: the output depends on the first block only: any later blocks put in
\* place of the ones given leave it unchanged, and every record comes from
\* a row of the first block.
C5_FirstBlockOnly ==
    Parsed /\ HasBlock =>
        /\ \A t \in LaterBlocks :
            parse_response([isNone |-> FALSE, blocks |-> <<arg.blocks[1]>> \o t]) = parsed
        /\ Len(parsed) <= Len(Rows)
        /\ \A j \in 1..Len(parsed) : FromRow(parsed[j], j)

\* two blocks, the first with one row of a column "a", the second with rows
\* of a column "b": the output is the first block's record alone
C5_Witness ==
    /\ Parsed /\ HasBlock /\ Len(arg.blocks) = 2
    /\ ColNames = <<"a">> /\ Rows = <<<<1>>>>
    /\ arg.blocks[2] = LaterBlockA
    /\ parsed = <<<<<<"a", 1>>>>>>

\* C6: one record per row of the first block, in row order: as many records
\* as rows, and the j-th record holds the j-th row's values under the names
\* of the columns the row reaches (none for an empty row or no columns).
C6_OneRecordPerRow ==
    Parsed /\ HasBlock =>
        /\ Len(parsed) = Len(Rows)
        /\ \A j \in 1..Len(Rows) :
            /\ FromRow(parsed[j], j)
            /\ \A p \in 1..Min(Len(ColNames), Len(Rows[j])) : KeyIn(parsed[j], ColNames[p])
            /\ Distinct(KeysOf(parsed[j]))

\* an empty row before a row of two values: an empty record, then a full one
C6_Witness ==
    /\ Parsed /\ HasBlock /\ Len(ColNames) = 2
    /\ Len(Rows) = 2 /\ Rows[1] = <<>> /\ Len(Rows[2]) = 2
    /\ Len(parsed) = 2 /\ parsed[1] = <<>> /\ Len(parsed[2]) > 0

\* ---------------------------------------------- reading a request call
\* the method dispatches to session.get or session.post
Dispatched == Upper(call.method) \in {"GET", "POST"}

\* the call has ended, by a return or by an exception
Ended == pc \in {"returned", "raised"}

\* the one request failed below HTTP: it was sent and no response came
TransportFailed == Len(sent) > 0 /\ response = NoResponse

\* a response came
Responded == response # NoResponse

\* the call ended with an exception and without a value
RaisedNoValue == pc = "raised" /\ outcome.kind = "raised" /\ outcome.value = None

\* the call returned the decoded body
ReturnedBody ==
    /\ pc = "returned"
    /\ outcome = [kind |-> "returned", value |-> JsonValue(response.text),
                  exc |-> NoException]

C8_NoRetry ==
    /\ Len(sent) <= 1
    /\ pc = "try" => sent = <<>> /\ response = NoResponse /\ exc = NoException
    /\ exc # NoException => pc \in {"except", "reraise", "raised"}

\* a public endpoint method whose only request timed out and which raised
C8_Witness ==
    /\ pc = "raised" /\ call.via = "get_trending_tokens"
    /\ Len(sent) = 1 /\ sent[1].verb = "GET"
    /\ exc.cls = "Timeout"

\* the three error kinds of _make_request
ErrorKinds == TransportErrors \cup {"HTTPError"} \cup JsonErrorClasses

WantedKey == IF ctor.key \notin {None, ""} THEN ctor.key ELSE env.key

\* C10: the constructor uses the explicit api_key when it is non-empty, else
\* CAMBRIAN_API_KEY, and raises ValueError, creating no session, exactly when
\* neither is a non-empty key.
C10_KeyRequired ==
    pc \in {"constructed", "ctor_raised"} =>
        /\ pc = "ctor_raised" <=> WantedKey \in {None, ""}
        /\ pc = "ctor_raised" =>
            /\ ~session.open /\ session.headers = <<>>
            /\ outcome.kind = "raised" /\ outcome.exc.cls = "ValueError"
        /\ pc = "constructed" =>
            /\ api_key = WantedKey
            /\ session.open /\ session.headers[1] = <<"X-API-KEY", WantedKey>>

\* an empty argument and an empty variable: ValueError and no session
C10_Witness ==
    /\ pc = "ctor_raised" /\ ctor.key = "" /\ env.key = ""
    /\ ~session.open /\ outcome.exc.cls = "ValueError"

\* ------------------------------------------------------ request URLs
\* b is full without its trailing slashes
StrippedRight(full, b) ==
    \E k \in 0..Len(full) :
        /\ b = SubSeq(full, 1, k)
        /\ \A i \in (k + 1)..Len(full) : full[i] = "/"
        /\ k = 0 \/ full[k] # "/"

\* p is full without its leading slashes
StrippedLeft(full, p) ==
    \E k \in 0..Len(full) :
        /\ p = SubSeq(full, k + 1, Len(full))
        /\ \A i \in 1..k : full[i] = "/"
        /\ k = Len(full) \/ full[k + 1] # "/"

\* the base URL the constructor is to use: the non-empty argument, else the
\* variable if set, else the production default
ChosenBase ==
    IF ~ctor.url.isNone /\ Len(ctor.url.s) > 0 THEN ctor.url.s
    ELSE IF ~env.base.isNone THEN env.base.s
    ELSE DefaultBaseUrl

\* C11: the constructed base URL is the chosen one (argument, else
\* CAMBRIAN_BASE_URL, else the default) without its trailing slashes, and
\* every request of _make_request goes to base_url + "/" + the endpoint
\* without its leading slashes: one "/" between the two.
C11_OneSlashBetween ==
    /\ pc = "constructed" => StrippedRight(ChosenBase, base_url)
    /\ base_url = <<>> \/ base_url[Len(base_url)] # "/"
    /\ \A n \in 1..Len(sent) :
        \E path \in {SubSeq(call.endpoint, k, Len(call.endpoint)) :
                        k \in 1..(Len(call.endpoint) + 1)} :
            /\ StrippedLeft(call.endpoint, path)
            /\ sent[n].url = base_url \o <<"/">> \o path

\* a base given as g// and an endpoint given as //p/q meet in g/p/q
C11_Witness ==
    /\ Len(sent) = 1
    /\ call.endpoint = <<"/", "/", "p", "/", "q">>
    /\ base_url = <<"g">>
    /\ sent[1].url = <<"g", "/", "p", "/", "q">>

\* C13: a public endpoint method calls with method GET and no body, and its
\* request is a GET that carries the method's params as the query and no
\* JSON body.
C13_EndpointsGetOnly ==
    call.via \in EndpointMethods =>
        /\ call.method = "GET" /\ call.data = None
        /\ \A n \in 1..Len(sent) :
            /\ sent[n].verb = "GET"
            /\ sent[n].json = None
            /\ sent[n].params = call.params
            /\ sent[n].url = base_url \o <<"/">> \o call.endpoint

\* get_ohlcv has sent its GET with its three query parameters
C13_Witness ==
    /\ call.via = "get_ohlcv" /\ Len(sent) = 1
    /\ sent[1].verb = "GET" /\ sent[1].json = None
    /\ sent[1].params = Params({"token_address", "timeframe", "limit"})

\* the dispatch of the running _make_request is over
AfterDispatch == pc \in {"status", "json", "except", "reraise", "raised", "returned"}

\* C15: a method that is GET or POST in any letter case sends one GET or
\* one POST request; any other method sends nothing and ends the call with
\* a ValueError.
C15_MethodDispatch ==
    AfterDispatch =>
        /\ call.method \in {"GET", "get"} => Len(sent) = 1 /\ sent[1].verb = "GET"
        /\ call.method \in {"POST", "Post"} => Len(sent) = 1 /\ sent[1].verb = "POST"
        /\ call.method \notin {"GET", "get", "POST", "Post"} =>
            /\ sent = <<>> /\ response = NoResponse
            /\ exc.cls = "ValueError"
            /\ pc # "returned"
            /\ pc = "raised" => outcome.kind = "raised" /\ outcome.exc.cls = "ValueError"

\* a PUT has raised ValueError and nothing was sent
C15_Witness ==
    /\ pc = "raised" /\ call.method = "PUT"
    /\ sent = <<>> /\ outcome.exc.cls = "ValueError"

\* C16: every record has only column names of the first block as keys, at
\* most min(len(row), N) of them, and each value is the value of its own row
\* at the position of a column of that name among the first N: the values of
\* a row past the N-th go into no record.
C16_RecordWithinRowAndColumns ==
    Parsed /\ HasBlock =>
        \A j \in 1..Len(parsed) :
            /\ j <= Len(Rows)
            /\ \A e \in 1..Len(parsed[j]) :
                /\ \E p \in 1..Len(ColNames) : ColNames[p] = parsed[j][e][1]
                /\ \E q \in 1..Len(Rows[j]) : Rows[j][q] = parsed[j][e][2]
            /\ Len(parsed[j]) <= Min(Len(Rows[j]), Len(ColNames))
            /\ FromRow(parsed[j], j)

\* one column and a row of two different values: the second value is dropped
C16_Witness ==
    /\ Parsed /\ HasBlock /\ Len(ColNames) = 1 /\ Len(Rows) >= 1
    /\ Len(Rows[1]) = 2 /\ Rows[1][1] # Rows[1][2]
    /\ parsed[1] = <<<<ColNames[1], Rows[1][1]>>>>

\* ------------------------------------------------------ configuration
\* a step leaves the client's configuration as it was
ConfigKept == api_key' = api_key /\ base_url' = base_url /\ session' = session

\* the request carries the key of the client
CarriesKey(request) == request.headers[1] = <<"X-API-KEY", api_key>>

\* C12: once the constructor is over, no step of parse_response,
\* test_endpoints, _make_request or an endpoint method changes api_key,
\* base_url or the session's headers, whether the call returns or raises, and
\* every request carries X-API-KEY equal to the key.
C12_ConfigImmutable ==
    /\ [][pc # "start" => ConfigKept]_vars
    /\ [](/\ session.open => session.headers[1] = <<"X-API-KEY", api_key>>
          /\ \A n \in 1..Len(sent) : CarriesKey(sent[n])
          /\ \A n \in 1..Len(te.sent) : CarriesKey(te.sent[n]))

\* test_endpoints has tried its three paths and returned None; the session
\* still carries the key
C12_Witness ==
    /\ pc = "te_returned" /\ Len(te.sent) = 3 /\ outcome.value = None
    /\ api_key = "k2" /\ session.headers[1] = <<"X-API-KEY", "k2">>
    /\ CarriesKey(te.sent[3])

====
